---- MODULE Spec2Model ----
(***************************************************************************)
(* Model of src/modbus_reader.py: the ModbusReader class (connection       *)
(* state, raw register read, the five typed readers, the type-name        *)
(* dispatch read_custom and the batch reader read_multiple).              *)
(*                                                                         *)
(* Representation of Python values:                                        *)
(*   - a return value is a record [t, v]: t = "None" (the None sentinel), *)
(*     "scalar" (v = <<x>>), "list" (v = the list) or "IndexError" (the   *)
(*     call raised IndexError; v = <<>>);                                  *)
(*   - a Python int that may exceed 2^31 (the combined unsigned 32-bit    *)
(*     value) is kept as two base-65536 limbs [hi, lo] = hi * 65536 + lo; *)
(*   - a bytes object is a sequence of bytes in buffer order; a float is  *)
(*     identified with its IEEE-754 bit pattern, [be |-> bytes], most     *)
(*     significant byte first;                                             *)
(*   - a str used as a type name is a sequence of one-character strings;  *)
(*   - a dict is a function on the set of keys it holds.                   *)
(* The Timestamp column (datetime.now()) of a row is not modelled.        *)
(***************************************************************************)
EXTENDS Integers, Sequences, FiniteSets, TLC

VARIABLES connected, client, lastConnect, gateOpen,
          pc, register_map, idx, results, wire,
          call, ret

vars == <<connected, client, lastConnect, gateOpen,
          pc, register_map, idx, results, wire, call, ret>>

connVars == <<connected, client, lastConnect, gateOpen>>
batchVars == <<pc, register_map, idx, results, wire>>
callVars == <<call, ret>>

(***************************************************************************)
(* Bounds                                                                  *)
(***************************************************************************)
MaxDescriptors == 3
MaxCount == 3
MaxWords == 5

(***************************************************************************)
(* Python helpers                                                          *)
(***************************************************************************)
None == [t |-> "None", v |-> <<>>]
Scalar(x) == [t |-> "scalar", v |-> <<x>>]
List(s) == [t |-> "list", v |-> s]
IndexError == [t |-> "IndexError", v |-> <<>>]

EmptyDict == [k \in {} |-> 0]
Get(d, k, default) == IF k \in DOMAIN d THEN d[k] ELSE default

LowerAlphabet == <<"a","b","c","d","e","f","g","h","i","j","k","l","m",
                   "n","o","p","q","r","s","t","u","v","w","x","y","z">>
UpperAlphabet == <<"A","B","C","D","E","F","G","H","I","J","K","L","M",
                   "N","O","P","Q","R","S","T","U","V","W","X","Y","Z">>

UpperChar(c) ==
    IF \E i \in 1..26 : LowerAlphabet[i] = c
    THEN UpperAlphabet[CHOOSE i \in 1..26 : LowerAlphabet[i] = c]
    ELSE c

Upper(s) == [i \in 1..Len(s) |-> UpperChar(s[i])]

INT16 == <<"I","N","T","1","6">>
INT32 == <<"I","N","T","3","2">>
FLOAT32 == <<"F","L","O","A","T","3","2">>
FLOAT64 == <<"F","L","O","A","T","6","4">>
BITMAP == <<"B","I","T","M","A","P">>

(***************************************************************************)
(* struct.pack / struct.unpack                                             *)
(***************************************************************************)
PackH(order, h) ==
    IF order = ">" THEN <<h \div 256, h % 256>> ELSE <<h % 256, h \div 256>>

RECURSIVE Pack(_, _)
Pack(order, hs) ==
    IF hs = <<>> THEN <<>> ELSE PackH(order, Head(hs)) \o Pack(order, Tail(hs))

Reverse(s) == [i \in 1..Len(s) |-> s[Len(s) + 1 - i]]

Unpack(order, bytes_data) ==
    [be |-> IF order = ">" THEN bytes_data ELSE Reverse(bytes_data)]

(***************************************************************************)
(* The decoding part of each typed reader: what the reader does with the   *)
(* list `registers` once read_holding_registers has returned it.  Python   *)
(* indexes are 0-based, sequences here 1-based: registers[i] of the source *)
(* is registers[i + 1] here.                                               *)
(***************************************************************************)
Unwrap(values, count) ==
    IF count = 1
    THEN (IF Len(values) = 0 THEN IndexError ELSE Scalar(values[1]))
    ELSE List(values)

Int16ValueOffByOne(reg, signed) ==
    IF signed THEN (IF reg > 32768 THEN reg - 65536 ELSE reg) ELSE reg

Int16Value(reg, signed) ==
    IF signed THEN (IF reg > 32767 THEN reg - 65536 ELSE reg) ELSE reg

DecodeInt16(registers, count, signed) ==
    Unwrap([j \in 1..Len(registers) |-> Int16Value(registers[j], signed)], count)

\* number of iterations of `for i in range(0, len(registers), step)`
Groups(registers, step) == (Len(registers) + step - 1) \div step

Int32CombineHighFirst(registers, i, byte_order) ==
    [hi |-> registers[i + 1], lo |-> registers[i + 2]]

Int32Combine(registers, i, byte_order) ==
    IF byte_order = "big"
    THEN [hi |-> registers[i + 1], lo |-> registers[i + 2]]
    ELSE [hi |-> registers[i + 2], lo |-> registers[i + 1]]

Int32Signed(value) ==
    IF value.hi > 32767
    THEN (value.hi - 65536) * 65536 + value.lo
    ELSE value.hi * 65536 + value.lo

DecodeInt32(registers, count, byte_order) ==
    IF Len(registers) % 2 # 0
    THEN IndexError
    ELSE Unwrap([j \in 1..Groups(registers, 2) |->
                    Int32Signed(Int32Combine(registers, 2 * (j - 1), byte_order))],
                count)

Float32BytesReversed(registers, i, byte_order) ==
    IF byte_order = "big"
    THEN Pack(">", <<registers[i + 1], registers[i + 2]>>)
    ELSE Pack("<", <<registers[i + 2], registers[i + 1]>>)

Float32Bytes(registers, i, byte_order) ==
    IF byte_order = "big"
    THEN Pack(">", <<registers[i + 1], registers[i + 2]>>)
    ELSE Pack("<", <<registers[i + 1], registers[i + 2]>>)

Float32Value(registers, i, byte_order) ==
    Unpack(IF byte_order = "big" THEN ">" ELSE "<",
           Float32Bytes(registers, i, byte_order))

DecodeFloat32(registers, count, byte_order) ==
    IF Len(registers) % 2 # 0
    THEN IndexError
    ELSE Unwrap([j \in 1..Groups(registers, 2) |->
                    Float32Value(registers, 2 * (j - 1), byte_order)],
                count)

Float64Bytes(registers, i, byte_order) ==
    IF byte_order = "big"
    THEN Pack(">", <<registers[i + 1], registers[i + 2],
                     registers[i + 3], registers[i + 4]>>)
    ELSE Pack("<", <<registers[i + 4], registers[i + 3],
                     registers[i + 2], registers[i + 1]>>)

Float64Value(registers, i, byte_order) ==
    Unpack(IF byte_order = "big" THEN ">" ELSE "<",
           Float64Bytes(registers, i, byte_order))

DecodeFloat64(registers, count, byte_order) ==
    IF Len(registers) % 4 # 0
    THEN IndexError
    ELSE Unwrap([j \in 1..Groups(registers, 4) |->
                    Float64Value(registers, 4 * (j - 1), byte_order)],
                count)

Bits(reg) == [b \in 1..16 |-> (reg \div (2 ^ (b - 1))) % 2 = 1]

DecodeBitmap(registers, count) ==
    IF count = 1
    THEN (IF Len(registers) = 0 THEN IndexError ELSE List(Bits(registers[1])))
    ELSE List([j \in 1..Len(registers) |-> Bits(registers[j])])

(***************************************************************************)
(* The transport.  env is what the pymodbus client does when it is called: *)
(* kind = "registers" (a response carrying env.registers), "isError" (a    *)
(* response with isError() true), "ModbusException" or "Exception" (the    *)
(* call raises).  Every reader returns, next to its Python return value,   *)
(* the sequence `calls` of the requests that reached the client.           *)
(***************************************************************************)
NoResponse == [kind |-> "isError", registers |-> <<>>]

read_holding_registers(conn, env, address, count) ==
    IF ~conn
    THEN [ok |-> FALSE, regs |-> <<>>, calls |-> <<>>]
    ELSE [ok |-> env.kind = "registers",
          regs |-> IF env.kind = "registers" THEN env.registers ELSE <<>>,
          calls |-> <<[address |-> address, count |-> count]>>]

read_int16(conn, env, address, count, signed) ==
    LET r == read_holding_registers(conn, env, address, count)
    IN  [ret |-> IF ~r.ok THEN None ELSE DecodeInt16(r.regs, count, signed),
         calls |-> r.calls]

read_int32(conn, env, address, count, byte_order) ==
    LET register_count == count * 2
        r == read_holding_registers(conn, env, address, register_count)
    IN  [ret |-> IF ~r.ok THEN None ELSE DecodeInt32(r.regs, count, byte_order),
         calls |-> r.calls]

read_float32(conn, env, address, count, byte_order) ==
    LET register_count == count * 2
        r == read_holding_registers(conn, env, address, register_count)
    IN  [ret |-> IF ~r.ok THEN None ELSE DecodeFloat32(r.regs, count, byte_order),
         calls |-> r.calls]

read_float64_two_registers(conn, env, address, count, byte_order) ==
    LET register_count == count * 2
        r == read_holding_registers(conn, env, address, register_count)
    IN  [ret |-> IF ~r.ok THEN None ELSE DecodeFloat64(r.regs, count, byte_order),
         calls |-> r.calls]

read_float64(conn, env, address, count, byte_order) ==
    LET register_count == count * 4
        r == read_holding_registers(conn, env, address, register_count)
    IN  [ret |-> IF ~r.ok THEN None ELSE DecodeFloat64(r.regs, count, byte_order),
         calls |-> r.calls]

read_bitmap(conn, env, address, count) ==
    LET r == read_holding_registers(conn, env, address, count)
    IN  [ret |-> IF ~r.ok THEN None ELSE DecodeBitmap(r.regs, count),
         calls |-> r.calls]

\* msg: the "Unsupported data type: ..." lines printed by the else branch
Dispatched(r, fn) == [ret |-> r.ret, calls |-> r.calls, fn |-> fn, msg |-> <<>>]

DispatchNameExact(data_type) == data_type

DispatchName(data_type) == Upper(data_type)

read_custom(conn, env, address, data_type, count, kwargs) ==
    LET dt == DispatchName(data_type)
    IN  IF dt = INT16
        THEN Dispatched(read_int16(conn, env, address, count,
                                   Get(kwargs, "signed", TRUE)), "read_int16")
        ELSE IF dt = INT32
        THEN Dispatched(read_int32(conn, env, address, count,
                                   Get(kwargs, "byte_order", "big")), "read_int32")
        ELSE IF dt = FLOAT32
        THEN Dispatched(read_float32(conn, env, address, count,
                                     Get(kwargs, "byte_order", "big")), "read_float32")
        ELSE IF dt = FLOAT64
        THEN Dispatched(read_float64(conn, env, address, count,
                                     Get(kwargs, "byte_order", "big")), "read_float64")
        ELSE IF dt = BITMAP
        THEN Dispatched(read_bitmap(conn, env, address, count), "read_bitmap")
        ELSE [ret |-> None, calls |-> <<>>, fn |-> "none",
              msg |-> <<[text |-> "Unsupported data type", names |-> <<dt>>],
                        [text |-> "Supported types",
                         names |-> <<INT16, INT32, FLOAT32, FLOAT64, BITMAP>>]>>]

(***************************************************************************)
(* read_multiple: the body of one iteration of the loop over register_map. *)
(* A row keeps the columns Name, Address, Data Type, Value, Unit and       *)
(* Description; Value is [error |-> TRUE] for the 'Error' marker.          *)
(***************************************************************************)
ErrorValue == [error |-> TRUE, v |-> <<>>]
GoodValue(x) == [error |-> FALSE, v |-> <<x>>]

Row(name, address, data_type, value, unit, description) ==
    [Name |-> name, Address |-> address, DataType |-> data_type,
     Value |-> value, Unit |-> unit, Description |-> description]

RowStride(data_type) ==
    IF data_type \in {INT32, FLOAT32} THEN 2
    ELSE IF data_type = FLOAT64 THEN 4
    ELSE 1

\* the row of a descriptor whose read returned None
ErrorRowsDropped(reg_config) == <<>>

ErrorRows(reg_config) ==
    <<Row(Get(reg_config, "name", <<"Register_", reg_config["address"]>>),
          reg_config["address"], reg_config["data_type"], ErrorValue,
          Get(reg_config, "unit", <<>>), Get(reg_config, "description", <<>>))>>

IterationRows(reg_config, value) ==
    LET name == Get(reg_config, "name", <<"Register_", reg_config["address"]>>)
        address == reg_config["address"]
        data_type == reg_config["data_type"]
        count == Get(reg_config, "count", 1)
        unit == Get(reg_config, "unit", <<>>)
        description == Get(reg_config, "description", <<>>)
    IN  IF value.t # "None"
        THEN IF value.t = "list" /\ count > 1
             THEN [i \in 1..Len(value.v) |->
                      Row(name \o <<"[", i - 1, "]">>,
                          address + ((i - 1) * RowStride(data_type)),
                          data_type, GoodValue(value.v[i]), unit, description)]
             ELSE <<Row(name, address, data_type,
                        GoodValue(IF value.t = "list" THEN value.v ELSE value.v[1]),
                        unit, description)>>
        ELSE ErrorRows(reg_config)

IterationCall(conn, env, reg_config) ==
    read_custom(conn, env, reg_config["address"], reg_config["data_type"],
                Get(reg_config, "count", 1), Get(reg_config, "options", EmptyDict))

(***************************************************************************)
(* Inputs: type-name spellings, keyword options, register descriptors,     *)
(* register maps, the device's register image and the transport outcomes.  *)
(***************************************************************************)
TypeNames ==
    { INT16, INT32, FLOAT32, FLOAT64, BITMAP,
      <<"i","n","t","1","6">>, <<"i","n","t","3","2">>,
      <<"f","l","o","a","t","3","2">>, <<"f","l","o","a","t","6","4">>,
      <<"b","i","t","m","a","p">>,
      <<"I","n","t","3","2">>, <<"F","l","o","a","t","6","4">>,
      <<"I","N","T","8">>, <<"i","n","t","8">>, <<"F","L","O","A","T">>, <<>> }

OptionSets ==
    { EmptyDict, [byte_order |-> "little"], [byte_order |-> "big"],
      [signed |-> FALSE] }

Addresses == {0, 10}

Descriptor(name, address, data_type, count, unit, options) ==
    [name |-> <<name>>, address |-> address, data_type |-> data_type,
     count |-> count, unit |-> <<unit>>, description |-> <<name, "of the meter">>,
     options |-> options]

AllDescriptors ==
    { Descriptor("Probe", a, t, c, "u", o) :
        a \in Addresses, t \in TypeNames, c \in 1..MaxCount, o \in OptionSets }

Catalogue ==
    { Descriptor("Voltage", 10, FLOAT32, MaxCount, "V", EmptyDict),
      Descriptor("Current", 20, <<"f","l","o","a","t","3","2">>, 2, "A",
                 [byte_order |-> "little"]),
      [address |-> 30, data_type |-> INT16],
      Descriptor("Energy", 40, <<"I","n","t","3","2">>, 1, "kWh", EmptyDict),
      Descriptor("Flags", 50, BITMAP, 1, "", EmptyDict),
      Descriptor("Legacy", 60, <<"I","N","T","8">>, 1, "", EmptyDict) }

RECURSIVE SeqsUpTo(_, _)
SeqsUpTo(S, n) ==
    IF n = 0 THEN {<<>>}
    ELSE LET shorter == SeqsUpTo(S, n - 1)
         IN  shorter \cup {Append(s, x) : s \in {t \in shorter : Len(t) = n - 1}, x \in S}

RegisterMaps ==
    SeqsUpTo(Catalogue, MaxDescriptors) \cup {<<d>> : d \in AllDescriptors}

Mem(a) == (a * 13331 + 4660) % 65536
DeviceWords(address, n) == [j \in 1..n |-> Mem(address + j - 1)]

FailureKinds == {"isError", "ModbusException", "Exception"}

\* what the client may do on a request for `count` registers at `address`:
\* answer with count registers, with one fewer or one more, or fail
TransportEnvs(address, count) ==
    { [kind |-> "registers", registers |-> DeviceWords(address, n)] :
        n \in {m \in {count - 1, count, count + 1} : m >= 0} }
    \cup { [kind |-> k, registers |-> <<>>] : k \in FailureKinds }

ConnectOutcomes == {"True", "False", "ctor_raises", "connect_raises"}

(***************************************************************************)
(* State.  connected and client are the fields of the ModbusReader (client *)
(* is "None", or the state of the ModbusTcpClient it refers to); pc,       *)
(* register_map, idx and results are the activation of read_multiple      *)
(* (idx: the position of the next descriptor).  History variables:        *)
(* lastConnect is the value the last connect() returned, gateOpen tells   *)
(* that it was True and no disconnect() was called since, wire has one    *)
(* entry per iteration of read_multiple: the requests that reached the    *)
(* client, whether the client answered with registers, how many, and how  *)
(* many rows the iteration appended.  call and ret are the last direct    *)
(* call of a reader and what it returned.                                  *)
(***************************************************************************)
NoCall == [fn |-> "none"]

IdleBatch ==
    /\ pc = "idle"
    /\ register_map = <<>>
    /\ idx = 1
    /\ results = <<>>
    /\ wire = <<>>

Init ==
    /\ connected = FALSE
    /\ client = "None"
    /\ lastConnect = "none"
    /\ gateOpen = FALSE
    /\ IdleBatch
    /\ call = NoCall
    /\ ret = None

ConnectedAfter(outcome) ==
    IF outcome \in {"True", "False"} THEN outcome = "True" ELSE connected

Connect(outcome) ==
    /\ pc = "idle"
    /\ client' = CASE outcome = "True" -> "open"
                   [] outcome = "False" -> "closed"
                   [] outcome = "connect_raises" -> "closed"
                   [] OTHER -> client
    /\ connected' = ConnectedAfter(outcome)
    /\ lastConnect' = IF outcome = "True" THEN "True" ELSE "False"
    /\ gateOpen' = (outcome = "True")
    /\ UNCHANGED <<batchVars, callVars>>

Disconnect ==
    /\ pc = "idle"
    /\ IF client # "None"
       THEN client' = "closed" /\ connected' = FALSE
       ELSE UNCHANGED <<client, connected>>
    /\ gateOpen' = FALSE
    /\ UNCHANGED <<lastConnect, batchVars, callVars>>

ReadHoldingRegisters(address, count, env) ==
    /\ pc = "idle"
    /\ LET r == read_holding_registers(connected, env, address, count)
       IN  /\ call' = [fn |-> "read_holding_registers", address |-> address,
                       count |-> count, calls |-> r.calls]
           /\ ret' = IF r.ok THEN List(r.regs) ELSE None
    /\ pc' = "returned"
    /\ UNCHANGED <<register_map, idx, results, wire, connVars>>

ReadMultipleCall(map) ==
    /\ pc = "idle"
    /\ pc' = "loop"
    /\ register_map' = map
    /\ UNCHANGED <<idx, results, wire, connVars, callVars>>

\* the outcomes the transport can have for this iteration: none when the
\* iteration does not reach the client
IterationEnvs(reg_config) ==
    LET probe == IterationCall(connected, NoResponse, reg_config)
    IN  IF probe.calls = <<>>
        THEN {NoResponse}
        ELSE TransportEnvs(probe.calls[1].address, probe.calls[1].count)

ReadMultipleIter(env) ==
    /\ pc = "loop"
    /\ idx <= Len(register_map)
    /\ LET reg_config == register_map[idx]
           r == IterationCall(connected, env, reg_config)
           rows == IterationRows(reg_config, r.ret)
           entry == [calls |-> r.calls,
                     ok |-> r.calls # <<>> /\ env.kind = "registers",
                     n |-> IF r.calls # <<>> THEN Len(env.registers) ELSE 0]
       IN  IF r.ret.t = "IndexError"
           THEN /\ pc' = "raised"
                /\ wire' = Append(wire, entry @@ [rows |-> 0])
                /\ UNCHANGED <<idx, results>>
           ELSE /\ pc' = "loop"
                /\ idx' = idx + 1
                /\ results' = results \o rows
                /\ wire' = Append(wire, entry @@ [rows |-> Len(rows)])
    /\ UNCHANGED <<register_map, connVars, callVars>>

ReadMultipleReturn ==
    /\ pc = "loop"
    /\ idx > Len(register_map)
    /\ pc' = "returned"
    /\ UNCHANGED <<register_map, idx, results, wire, connVars, callVars>>

\* the caller takes what the call returned (or the exception it raised) and
\* goes on: the activation and its history are dropped
Resume ==
    /\ pc \in {"returned", "raised"}
    /\ pc' = "idle"
    /\ register_map' = <<>>
    /\ idx' = 1
    /\ results' = <<>>
    /\ wire' = <<>>
    /\ call' = NoCall
    /\ ret' = None
    /\ UNCHANGED connVars

Next ==
    \/ \E outcome \in ConnectOutcomes : Connect(outcome)
    \/ Disconnect
    \/ (pc = "idle" /\ \E a \in Addresses, c \in 1..MaxCount :
          \E env \in TransportEnvs(a, c) : ReadHoldingRegisters(a, c, env))
    \/ (pc = "idle" /\ \E map \in RegisterMaps : ReadMultipleCall(map))
    \/ (pc = "loop" /\ idx <= Len(register_map)
        /\ \E env \in IterationEnvs(register_map[idx]) : ReadMultipleIter(env))
    \/ ReadMultipleReturn
    \/ Resume

Spec == Init /\ [][Next]_vars

(***************************************************************************)
(* Direct calls of the typed readers and of read_custom on a reader whose  *)
(* connect() has returned True.  The client answers with any sequence of   *)
(* sample words of any length up to MaxWords (or fails), whatever the      *)
(* number of registers requested.                                          *)
(***************************************************************************)
WordSample == {0, 4660, 32767, 32768, 65535}
AllWords == 0..65535

WordSeqs == SeqsUpTo(WordSample, MaxWords)

RegistersEnv(words) == [kind |-> "registers", registers |-> words]

DecodeEnvs ==
    {RegistersEnv(w) : w \in WordSeqs} \cup {[kind |-> "isError", registers |-> <<>>]}

ByteOrders == {"big", "little"}

InitDecode ==
    /\ connected = TRUE
    /\ client = "open"
    /\ lastConnect = "True"
    /\ gateOpen = TRUE
    /\ IdleBatch
    /\ call = NoCall
    /\ ret = None

Returned(c, r) ==
    /\ call' = c @@ [calls |-> r.calls]
    /\ ret' = r.ret
    /\ pc' = "returned"
    /\ UNCHANGED <<register_map, idx, results, wire, connVars>>

CallReadInt16(address, count, signed, env) ==
    /\ pc = "idle"
    /\ Returned([fn |-> "read_int16", address |-> address, count |-> count,
                 signed |-> signed, env |-> env],
                read_int16(connected, env, address, count, signed))

CallReadInt32(address, count, byte_order, env) ==
    /\ pc = "idle"
    /\ Returned([fn |-> "read_int32", address |-> address, count |-> count,
                 byte_order |-> byte_order, env |-> env],
                read_int32(connected, env, address, count, byte_order))

CallReadFloat32(address, count, byte_order, env) ==
    /\ pc = "idle"
    /\ Returned([fn |-> "read_float32", address |-> address, count |-> count,
                 byte_order |-> byte_order, env |-> env],
                read_float32(connected, env, address, count, byte_order))

CallReadFloat64(address, count, byte_order, env) ==
    /\ pc = "idle"
    /\ Returned([fn |-> "read_float64", address |-> address, count |-> count,
                 byte_order |-> byte_order, env |-> env],
                read_float64(connected, env, address, count, byte_order))

CallReadBitmap(address, count, env) ==
    /\ pc = "idle"
    /\ Returned([fn |-> "read_bitmap", address |-> address, count |-> count,
                 env |-> env],
                read_bitmap(connected, env, address, count))

CallReadCustom(address, data_type, count, kwargs, env) ==
    /\ pc = "idle"
    /\ LET r == read_custom(connected, env, address, data_type, count, kwargs)
       IN  Returned([fn |-> "read_custom", address |-> address,
                     data_type |-> data_type, count |-> count, kwargs |-> kwargs,
                     env |-> env, target |-> r.fn, msg |-> r.msg], r)

CustomEnvs(address, data_type, count, kwargs) ==
    LET probe == read_custom(connected, NoResponse, address, data_type, count, kwargs)
    IN  IF probe.calls = <<>>
        THEN {NoResponse}
        ELSE TransportEnvs(probe.calls[1].address, probe.calls[1].count)

NextDecode ==
    \/ (pc = "idle" /\ \E c \in 1..MaxCount, signed \in BOOLEAN :
          \E env \in DecodeEnvs \cup
                     (IF c = 1 THEN {RegistersEnv(<<w>>) : w \in AllWords} ELSE {}) :
             CallReadInt16(0, c, signed, env))
    \/ (pc = "idle" /\ \E c \in 1..MaxCount, bo \in ByteOrders, env \in DecodeEnvs :
          CallReadInt32(0, c, bo, env))
    \/ (pc = "idle" /\ \E c \in 1..MaxCount, bo \in ByteOrders, env \in DecodeEnvs :
          CallReadFloat32(0, c, bo, env))
    \/ (pc = "idle" /\ \E c \in 1..MaxCount, bo \in ByteOrders, env \in DecodeEnvs :
          CallReadFloat64(0, c, bo, env))
    \/ (pc = "idle" /\ \E c \in 1..MaxCount, env \in DecodeEnvs :
          CallReadBitmap(0, c, env))
    \/ (pc = "idle" /\ \E a \in Addresses, t \in TypeNames, c \in 1..MaxCount,
                          kw \in OptionSets :
          \E env \in CustomEnvs(a, t, c, kw) : CallReadCustom(a, t, c, kw, env))
    \/ Resume

SpecDecode == InitDecode /\ [][NextDecode]_vars

(***************************************************************************)
(* Vocabulary of the properties: the data types and word widths of the     *)
(* specification, equality of names up to letter case, big-endian bytes of *)
(* a word sequence, and the rows each iteration of read_multiple appended. *)
(***************************************************************************)
CanonicalNames == {INT16, INT32, FLOAT32, FLOAT64, BITMAP}

WordWidth(canonical) ==
    CASE canonical = INT16 -> 1
      [] canonical = INT32 -> 2
      [] canonical = FLOAT32 -> 2
      [] canonical = FLOAT64 -> 4
      [] canonical = BITMAP -> 1

ReaderOf(canonical) ==
    CASE canonical = INT16 -> "read_int16"
      [] canonical = INT32 -> "read_int32"
      [] canonical = FLOAT32 -> "read_float32"
      [] canonical = FLOAT64 -> "read_float64"
      [] canonical = BITMAP -> "read_bitmap"

ReaderWidth(fn) ==
    CASE fn = "read_int16" -> 1
      [] fn = "read_int32" -> 2
      [] fn = "read_float32" -> 2
      [] fn = "read_float64" -> 4
      [] fn = "read_bitmap" -> 1

CasePair(c, d) ==
    \E i \in 1..26 : {c, d} = {LowerAlphabet[i], UpperAlphabet[i]}

SameIgnoringCase(a, b) ==
    /\ Len(a) = Len(b)
    /\ \A i \in 1..Len(a) : a[i] = b[i] \/ CasePair(a[i], b[i])

Supported(name) == \E c \in CanonicalNames : SameIgnoringCase(name, c)
Canonical(name) == CHOOSE c \in CanonicalNames : SameIgnoringCase(name, c)

RECURSIVE BigEndianBytes(_)
BigEndianBytes(words) ==
    IF words = <<>> THEN <<>>
    ELSE <<Head(words) \div 256, Head(words) % 256>> \o BigEndianBytes(Tail(words))

TypedReaders ==
    {"read_int16", "read_int32", "read_float32", "read_float64", "read_bitmap"}

GotRegisters == call.fn # "none" /\ call.calls # <<>> /\ call.env.kind = "registers"
Registers == call.env.registers

RECURSIVE RowsBefore(_)
RowsBefore(k) == IF k <= 1 THEN 0 ELSE RowsBefore(k - 1) + wire[k - 1].rows

Segment(k) == SubSeq(results, RowsBefore(k) + 1, RowsBefore(k) + wire[k].rows)

CountOf(d) == IF "count" \in DOMAIN d THEN d["count"] ELSE 1

TransportFailed(k) == ~connected \/ (wire[k].calls # <<>> /\ ~wire[k].ok)

\* the client answered with exactly the number of registers requested
Answered(k) ==
    /\ wire[k].calls # <<>>
    /\ wire[k].ok
    /\ wire[k].n = wire[k].calls[1].count

IsPrefix(p, s) == Len(p) <= Len(s) /\ SubSeq(s, 1, Len(p)) = p

KeepsDescriptor(row, d) ==
    /\ row.DataType = d["data_type"]
    /\ "name" \in DOMAIN d => IsPrefix(d["name"], row.Name)
    /\ "unit" \in DOMAIN d => row.Unit = d["unit"]
    /\ "description" \in DOMAIN d => row.Description = d["description"]

ExpectedRequest(d) ==
    IF Supported(d["data_type"])
    THEN <<[address |-> d["address"],
            count |-> CountOf(d) * WordWidth(Canonical(d["data_type"]))]>>
    ELSE <<>>

InBatch == pc \in {"loop", "returned", "raised"} /\ call.fn = "none"

(***************************************************************************)
(* C1 (Spec): failure isolation in read_multiple.  At every point of a     *)
(* batch, every descriptor processed so far whose transport read failed    *)
(* (not connected, error response, exception) has contributed exactly one  *)
(* error-marked row with its name, base address, data type, unit and       *)
(* description, every descriptor whose read was answered has contributed   *)
(* only normal rows of its own, the rows lie in descriptor order, a batch  *)
(* is never aborted by a transport failure, and a batch that returns has   *)
(* processed every descriptor.                                             *)
(***************************************************************************)
FailureIsolation ==
    InBatch =>
        /\ Len(results) = RowsBefore(Len(wire) + 1)
        /\ \A k \in 1..Len(wire) :
             LET d == register_map[k]
             IN  /\ TransportFailed(k) =>
                      /\ wire[k].rows = 1
                      /\ Segment(k)[1].Value = ErrorValue
                      /\ Segment(k)[1].Address = d["address"]
                      /\ KeepsDescriptor(Segment(k)[1], d)
                      /\ "name" \in DOMAIN d => Segment(k)[1].Name = d["name"]
                 /\ Answered(k) =>
                      /\ wire[k].rows >= 1
                      /\ \A i \in 1..wire[k].rows :
                           /\ ~Segment(k)[i].Value.error
                           /\ KeepsDescriptor(Segment(k)[i], d)
        /\ pc = "raised" =>
             /\ wire[Len(wire)].ok
             /\ wire[Len(wire)].n # wire[Len(wire)].calls[1].count
        /\ pc = "returned" => Len(wire) = Len(register_map)
        /\ pc = "loop" => Len(wire) = idx - 1

\* a returned batch of three descriptors where only the second one failed
FailureIsolationWitness ==
    /\ InBatch
    /\ pc = "returned"
    /\ connected
    /\ Len(register_map) = 3
    /\ Answered(1) /\ TransportFailed(2) /\ Answered(3)
    /\ wire[1].rows > 1
    /\ results[wire[1].rows + 1].Value = ErrorValue
    /\ Len(results) = wire[1].rows + 1 + wire[3].rows

RequestShapeAndOrder ==
    (InBatch /\ connected) =>
        /\ \A k \in 1..Len(wire) : wire[k].calls = ExpectedRequest(register_map[k])
        /\ Len(wire) <= Len(register_map)
        /\ pc = "returned" => Len(wire) = Len(register_map)
        /\ pc = "loop" => Len(wire) = idx - 1

\* a returned batch on a connected reader that issued three requests, the
\* second of which failed, one of them for a multi-word type with count > 1
RequestShapeAndOrderWitness ==
    /\ InBatch
    /\ connected
    /\ pc = "returned"
    /\ Len(wire) = 3
    /\ \A k \in 1..3 : wire[k].calls # <<>>
    /\ ~wire[2].ok
    /\ \E k \in 1..3 : wire[k].calls[1].count = 2 * MaxCount

(***************************************************************************)
(* C10 (Spec): connection gating.  The connected flag equals the value the *)
(* last connect() returned unless a later disconnect() cleared it, and a   *)
(* read reaches the client only while that holds.                          *)
(***************************************************************************)
ConnectionGating ==
    /\ connected = gateOpen
    /\ InBatch => \A k \in 1..Len(wire) : wire[k].calls # <<>> => gateOpen
    /\ call.fn = "read_holding_registers" => (call.calls # <<>> => gateOpen)

(***************************************************************************)
(* C3 (SpecDecode): malformed input is rejected.  Whenever a typed reader  *)
(* is handed a word sequence whose length differs from                     *)
(* count * wordWidth(dataType), it yields a failure and no decoded value.  *)
(***************************************************************************)
MalformedInputRejected ==
    (call.fn \in TypedReaders /\ GotRegisters
        /\ Len(Registers) # call.count * ReaderWidth(call.fn)) =>
      ret.t \notin {"scalar", "list"}

(***************************************************************************)
(* C5 (SpecDecode): type-name dispatch.  The outcome of read_custom        *)
(* depends on the name only up to letter case: every spelling that differs *)
(* only in case is dispatched to the same reader with the same arguments   *)
(* and returns the same result; a name that is one of the five types up to *)
(* case goes to that type's reader; every other name returns the failure   *)
(* to the caller with the unsupported-type message, decodes nothing and    *)
(* sends no request.                                                       *)
(***************************************************************************)
DispatchIgnoresCase ==
    call.fn = "read_custom" =>
        /\ \A other \in TypeNames :
             SameIgnoringCase(other, call.data_type) =>
               LET r == read_custom(connected, call.env, call.address, other,
                                    call.count, call.kwargs)
               IN  /\ r.ret = ret
                   /\ r.fn = call.target
                   /\ r.calls = call.calls
                   /\ r.msg = call.msg
        /\ Supported(call.data_type) =>
             /\ call.target = ReaderOf(Canonical(call.data_type))
             /\ call.msg = <<>>
             /\ call.calls = <<[address |-> call.address,
                                count |-> call.count
                                          * WordWidth(Canonical(call.data_type))]>>
        /\ ~Supported(call.data_type) =>
             /\ ret = None
             /\ call.target = "none"
             /\ call.calls = <<>>
             /\ Len(call.msg) = 2
             /\ call.msg[1].text = "Unsupported data type"
             /\ SameIgnoringCase(call.msg[1].names[1], call.data_type)
             /\ \A c \in CanonicalNames :
                  \E i \in 1..Len(call.msg[2].names) : call.msg[2].names[i] = c

\* a mixed-case spelling was dispatched to a reader and decoded values, and
\* (second disjunct) an unknown name was refused
DispatchIgnoresCaseWitness ==
    /\ call.fn = "read_custom"
    /\ call.data_type = <<"F","l","o","a","t","6","4">>
    /\ call.target = "read_float64"
    /\ ret.t = "scalar"

DispatchUnsupportedWitness ==
    /\ call.fn = "read_custom"
    /\ call.data_type = <<"i","n","t","8">>
    /\ ret = None
    /\ call.calls = <<>>

(***************************************************************************)
(* C6 (SpecDecode): Float64 word order.  For four words, Big takes         *)
(* words[0] as the highest-order and words[3] as the lowest-order 16 bits  *)
(* of the pattern, Little takes them in reversed significance (words[3]    *)
(* highest), so that Little on [w0,w1,w2,w3] gives the pattern Big gives   *)
(* on [w3,w2,w1,w0].                                                       *)
(***************************************************************************)
Float64WordOrder ==
    (call.fn = "read_float64" /\ GotRegisters /\ call.count = 1
        /\ Len(Registers) = 4) =>
      ret = Scalar([be |-> IF call.byte_order = "big"
                           THEN BigEndianBytes(Registers)
                           ELSE BigEndianBytes(Reverse(Registers))])

(***************************************************************************)
(* C7 (SpecDecode): Int32 decoding.  For a well-formed response the k-th   *)
(* value is the two's-complement signed 32-bit reading of hi * 65536 + lo, *)
(* where (hi, lo) = (words[2k], words[2k+1]) with Big and                  *)
(* (words[2k+1], words[2k]) with Little: it lies in [-2^31, 2^31 - 1], its *)
(* low 16 bits are lo and its next 16 bits are hi.                         *)
(***************************************************************************)
Int32Decoding ==
    (call.fn = "read_int32" /\ GotRegisters /\ Len(Registers) = 2 * call.count) =>
      /\ ret.t = (IF call.count = 1 THEN "scalar" ELSE "list")
      /\ Len(ret.v) = call.count
      /\ \A k \in 1..call.count :
           LET hi == IF call.byte_order = "big"
                     THEN Registers[2 * k - 1] ELSE Registers[2 * k]
               lo == IF call.byte_order = "big"
                     THEN Registers[2 * k] ELSE Registers[2 * k - 1]
               v == ret.v[k]
           IN  /\ (v \div 65536) \in -32768..32767
               /\ (v \div 65536) % 65536 = hi
               /\ v % 65536 = lo

\* a Little decode of two values, the first negative, the words of a pair
\* being different
Int32DecodingWitness ==
    /\ call.fn = "read_int32"
    /\ GotRegisters
    /\ call.byte_order = "little"
    /\ call.count = 2
    /\ Registers = <<4660, 65535, 32768, 0>>
    /\ ret = List(<<-60876, 32768>>)

(***************************************************************************)
(* C8 (SpecDecode): Int16 signed round trip.  With signed = true the       *)
(* decoded value v of a word w lies in [-32768, 32767] and v mod 65536 = w *)
(* (so decoding the word v mod 65536 of any such v returns v); with        *)
(* signed = false the word is returned unchanged.                          *)
(***************************************************************************)
Int16RoundTrip ==
    (call.fn = "read_int16" /\ GotRegisters /\ Len(Registers) = call.count) =>
      /\ ret.t = (IF call.count = 1 THEN "scalar" ELSE "list")
      /\ Len(ret.v) = call.count
      /\ \A k \in 1..call.count :
           IF call.signed
           THEN ret.v[k] \in -32768..32767 /\ ret.v[k] % 65536 = Registers[k]
           ELSE ret.v[k] = Registers[k]

Int16RoundTripWitness ==
    /\ call.fn = "read_int16"
    /\ GotRegisters
    /\ call.signed
    /\ call.count = 1
    /\ Registers = <<32768>>
    /\ ret = Scalar(-32768)

(***************************************************************************)
(* C9 (SpecDecode): Float32 assembly follows the Int32 word rule.  For a   *)
(* well-formed response the 32-bit pattern of the k-th float has as high   *)
(* and low 16 bits the high and low word Int32 decoding combines from the  *)
(* same words under the same byte order, and with Big the pattern is the   *)
(* big-endian bytes of the two words in order.                             *)
(***************************************************************************)
Float32FollowsInt32 ==
    (call.fn = "read_float32" /\ GotRegisters /\ Len(Registers) = 2 * call.count) =>
      /\ ret.t = (IF call.count = 1 THEN "scalar" ELSE "list")
      /\ Len(ret.v) = call.count
      /\ \A k \in 1..call.count :
           LET pattern == ret.v[k].be
               combined == Int32Combine(Registers, 2 * (k - 1), call.byte_order)
           IN  /\ Len(pattern) = 4
               /\ pattern[1] * 256 + pattern[2] = combined.hi
               /\ pattern[3] * 256 + pattern[4] = combined.lo
               /\ call.byte_order = "big" =>
                    pattern = BigEndianBytes(SubSeq(Registers, 2 * k - 1, 2 * k))

Float32FollowsInt32Witness ==
    /\ call.fn = "read_float32"
    /\ GotRegisters
    /\ call.byte_order = "little"
    /\ call.count = 1
    /\ Registers = <<4660, 32768>>
    /\ ret = Scalar([be |-> <<128, 0, 18, 52>>])

====
